---- MODULE Spec2Model ----
(***************************************************************************)
(* Model of src/src/generate_calendar.py: a batch run that fetches the     *)
(* rows of a sheet, turns them into GameEvent records, sorts them, renders *)
(* an iCalendar text and writes it to disk when it differs from the file.  *)
(*                                                                         *)
(* A Python str is a sequence of characters; a character is a one-letter   *)
(* string.  The fixed keywords of the output ("BEGIN:VEVENT", "UID:",      *)
(* "Giveaway: ", ...) are kept as single elements of such a sequence: they *)
(* hold no whitespace, backslash, semicolon or comma, so no operation of   *)
(* the program looks inside them.                                          *)
(***************************************************************************)
EXTENDS Integers, Sequences, FiniteSets, TLC

VARIABLES
    sheet,      \* the remote tab: a sequence of rows, row 1 is the header
    creds,      \* whether SHEETS_SERVICE_ACCOUNT_JSON is set
    tzdata,     \* whether zoneinfo's America/Los_Angeles can be loaded
    file,       \* docs/calendar.ics: [exists |-> BOOLEAN, data |-> text]
    pc,         \* position of the run inside main()
    values,     \* result of _fetch_sheet_values
    header_map, \* result of _build_header_map
    rowIdx,     \* index in values of the next row _iter_events reads
    events,     \* GameEvents yielded so far, in row order
    order,      \* the permutation sorted() applies to events
    ics_content,\* result of _render_ics
    changed,    \* result of _write_if_changed in this run, or None
    writes,     \* number of times this run opened the file for writing
    err,        \* the exception that ended the run, or None
    fileAtStart,\* the file when the current run started
    escIn,      \* argument of a direct call of _ics_escape
    escOut      \* its result

vars == <<sheet, creds, tzdata, file, pc, values, header_map, rowIdx, events,
          order, ics_content, changed, writes, err, fileAtStart,
          escIn, escOut>>

-----------------------------------------------------------------------------
(* Bounds *)

MaxRows == 3
MaxLen == 3

-----------------------------------------------------------------------------
(* Characters and strings *)

\* The characters used, in ascending code point order.
CodeOrder == <<"\t", "\n", "\r", " ", "#", "(", ")", ",", "-",
               "0", "1", "2", "3", "4", "5", "6", "7", "8", "9",
               ":", ";", "?", "A", "D", "E", "G", "I", "M", "P", "T", "X",
               "Y", "\\", "a", "b", "c", "d", "e", "g", "h", "i", "k",
               "m", "n", "o", "p", "r", "s", "t", "u", "v", "w", "x", "y">>

Ord(c) == CHOOSE i \in 1..Len(CodeOrder) : CodeOrder[i] = c

Digits == <<"0", "1", "2", "3", "4", "5", "6", "7", "8", "9">>

IsDigit(c) == \E i \in 1..10 : Digits[i] = c

DigitVal(c) == (CHOOSE i \in 1..10 : Digits[i] = c) - 1

\* str.isspace for the characters used
IsSpace(c) == c \in {" ", "\t", "\n", "\r"}

\* str.lower, one character
LowerChar(c) ==
    CASE c = "A" -> "a" [] c = "D" -> "d" [] c = "E" -> "e" [] c = "G" -> "g"
      [] c = "I" -> "i"
      [] c = "M" -> "m" [] c = "P" -> "p" [] c = "T" -> "t" [] c = "X" -> "x"
      [] c = "Y" -> "y"
      [] OTHER -> c

Lower(s) == [i \in 1..Len(s) |-> LowerChar(s[i])]

\* [a-z0-9]
IsLowerAlnum(c) ==
    \/ IsDigit(c)
    \/ c \in {"a", "b", "c", "d", "e", "g", "h", "i", "k", "m", "n", "o",
              "p", "r", "s", "t", "u", "v", "w", "x", "y"}

RECURSIVE LStrip(_)
LStrip(s) == IF s # <<>> /\ IsSpace(Head(s)) THEN LStrip(Tail(s)) ELSE s

RECURSIVE RStrip(_)
RStrip(s) ==
    IF s # <<>> /\ IsSpace(s[Len(s)]) THEN RStrip(SubSeq(s, 1, Len(s) - 1))
    ELSE s

\* str.strip()
Strip(s) == RStrip(LStrip(s))

\* str.replace(old, new) for a one-character old
RECURSIVE Replace(_, _, _)
Replace(s, old, new) ==
    IF s = <<>> THEN <<>>
    ELSE (IF Head(s) = old THEN new ELSE <<Head(s)>>)
         \o Replace(Tail(s), old, new)

\* s1 < s2 for Python strings: by code point, then by length
RECURSIVE StrLess(_, _)
StrLess(s1, s2) ==
    IF s2 = <<>> THEN FALSE
    ELSE IF s1 = <<>> THEN TRUE
    ELSE IF Head(s1) # Head(s2) THEN Ord(Head(s1)) < Ord(Head(s2))
    ELSE StrLess(Tail(s1), Tail(s2))

-----------------------------------------------------------------------------
(* _ics_escape *)

\* a variant that escapes the backslash after the other three characters
IcsEscapeBackslashLast(value) ==
    Replace(Replace(Replace(Replace(value, ";", <<"\\", ";">>),
                            ",", <<"\\", ",">>),
                    "\n", <<"\\", "n">>),
            "\\", <<"\\", "\\">>)

\* the four replace calls, in the order of the code
_ics_escape(value) ==
    Replace(Replace(Replace(Replace(value, "\\", <<"\\", "\\">>),
                            ";", <<"\\", ";">>),
                    ",", <<"\\", ",">>),
            "\n", <<"\\", "n">>)

-----------------------------------------------------------------------------
(* int(), _parse_going, _parse_datetime, _format_dt_utc *)

AllDigits(s) == s # <<>> /\ \A i \in 1..Len(s) : IsDigit(s[i])

RECURSIVE DecVal(_)
DecVal(s) ==
    IF s = <<>> THEN 0
    ELSE 10 * DecVal(SubSeq(s, 1, Len(s) - 1)) + DigitVal(s[Len(s)])

\* int(s): surrounding whitespace is ignored, then an optional sign and
\* decimal digits; ok = FALSE stands for ValueError
PyInt(s) ==
    LET t == Strip(s) IN
    IF AllDigits(t) THEN [ok |-> TRUE, val |-> DecVal(t)]
    ELSE IF t # <<>> /\ Head(t) = "-" /\ AllDigits(Tail(t))
         THEN [ok |-> TRUE, val |-> 0 - DecVal(Tail(t))]
    ELSE [ok |-> FALSE, val |-> 0]

TruthyTokens ==
    { <<"t", "r", "u", "e">>, <<"y", "e", "s">>, <<"y">>, <<"1">>,
      <<"c", "h", "e", "c", "k", "e", "d">> }

_parse_going(value) == Lower(Strip(value)) \in TruthyTokens

\* s split at runs of whitespace (s has no leading or trailing whitespace)
RECURSIVE Fields(_, _)
Fields(s, cur) ==
    IF s = <<>> THEN (IF cur = <<>> THEN <<>> ELSE <<cur>>)
    ELSE IF IsSpace(Head(s))
         THEN (IF cur = <<>> THEN <<>> ELSE <<cur>>) \o Fields(Tail(s), <<>>)
    ELSE Fields(Tail(s), Append(cur, Head(s)))

\* the positions of character c in s
Positions(s, c) == {i \in 1..Len(s) : s[i] = c}

\* a field of one or two digits, or -1
Num2(s) == IF Len(s) \in {1, 2} /\ AllDigits(s) THEN DecVal(s) ELSE 0 - 1

DaysInMonth == <<31, 28, 31, 30, 31, 30, 31, 31, 30, 31, 30, 31>>

RECURSIVE DaysBefore(_)
DaysBefore(month) ==
    IF month = 1 THEN 0 ELSE DaysBefore(month - 1) + DaysInMonth[month - 1]

MinutesPerDay == 24 * 60

\* minutes from 2026-01-01 00:00 to the given wall-clock time of 2026
MinuteOfYear(month, day, hour, minute) ==
    (DaysBefore(month) + day - 1) * MinutesPerDay + hour * 60 + minute

\* datetime.strptime(combined, "%m-%d %Y %I:%M %p") as minutes of 2026;
\* ok = FALSE stands for ValueError
Strptime(combined) ==
    LET f == Fields(combined, <<>>)
        bad == [ok |-> FALSE, val |-> 0, why |-> "format"]
    IN  IF Len(f) # 4 THEN bad
        ELSE LET d == f[1]
                 t == f[3]
                 p == Lower(f[4])
                 dp == Positions(d, "-")
                 tp == Positions(t, ":")
             IN IF \/ Cardinality(dp) # 1
                   \/ Cardinality(tp) # 1
                   \/ f[2] # <<"2", "0", "2", "6">>
                   \/ p \notin {<<"a", "m">>, <<"p", "m">>}
                THEN bad
                ELSE LET di == CHOOSE i \in dp : TRUE
                         ti == CHOOSE i \in tp : TRUE
                         mo == Num2(SubSeq(d, 1, di - 1))
                         dy == Num2(SubSeq(d, di + 1, Len(d)))
                         hr == Num2(SubSeq(t, 1, ti - 1))
                         mi == Num2(SubSeq(t, ti + 1, Len(t)))
                     IN IF \/ mo \notin 1..12
                           \/ hr \notin 1..12
                           \/ mi \notin 0..59
                           \/ dy < 1
                           \/ dy > 31
                        THEN bad
                        ELSE IF dy > DaysInMonth[mo]
                             THEN [ok |-> FALSE, val |-> 0, why |-> "day"]
                        ELSE [ok |-> TRUE, why |-> "",
                              val |-> MinuteOfYear(mo, dy,
                                        (hr % 12) + (IF p = <<"p", "m">>
                                                     THEN 12 ELSE 0), mi)]

\* America/Los_Angeles in 2026: daylight time from March 8, 03:00 to
\* November 1, 02:00 wall-clock time (fold = 0); minutes west of UTC
PacificOffset(local) ==
    IF /\ local >= MinuteOfYear(3, 8, 3, 0)
       /\ local < MinuteOfYear(11, 1, 2, 0)
    THEN 7 * 60 ELSE 8 * 60

\* UTC minutes since 2026-01-01 00:00, or ok = FALSE for ValueError
_parse_datetime(date_str, time_str, zoneinfo) ==
    LET combined == Strip(date_str) \o <<" ", "2", "0", "2", "6", " ">>
                    \o Strip(time_str)
        local_dt == Strptime(combined)
    IN  IF ~local_dt.ok THEN local_dt
        ELSE IF zoneinfo
             THEN [ok |-> TRUE, why |-> "",
                   val |-> local_dt.val + PacificOffset(local_dt.val)]
        ELSE [ok |-> TRUE, why |-> "", val |-> local_dt.val + 8 * 60]

DURATION_HOURS == 4

Pad2(n) == <<Digits[(n \div 10) + 1], Digits[(n % 10) + 1]>>

RECURSIVE MonthOf(_, _)
MonthOf(dayOfYear, month) ==
    IF dayOfYear < DaysBefore(month) + DaysInMonth[month] THEN month
    ELSE MonthOf(dayOfYear, month + 1)

\* strftime("%Y%m%dT%H%M%SZ") of a UTC time (2026 and 2027 have 365 days)
_format_dt_utc(dt) ==
    LET year == dt \div (365 * MinutesPerDay)
        rest == dt % (365 * MinutesPerDay)
        doy == rest \div MinutesPerDay
        mo == MonthOf(doy, 1)
        dy == doy - DaysBefore(mo) + 1
        hr == (rest % MinutesPerDay) \div 60
        mi == rest % 60
    IN  <<"2", "0", "2", Digits[6 + year + 1]>> \o Pad2(mo) \o Pad2(dy)
        \o <<"T">> \o Pad2(hr) \o Pad2(mi) \o <<"0", "0", "Z">>

-----------------------------------------------------------------------------
(* GameEvent, _build_summary *)

\* Optional[str]: None, or a string
None == <<>>
Some(s) == <<s>>

GameEvent(uid, start_utc, end_utc, summary, description) ==
    [uid |-> uid, start_utc |-> start_utc, end_utc |-> end_utc,
     summary |-> summary, description |-> description]

\* a variant that takes the away marker when the identifier is no integer
HomeAwayStrict(uid) ==
    LET n == PyInt(uid) IN IF n.ok /\ n.val < 82 THEN "vs" ELSE "@"

\* lines 86-90 of _build_summary
HomeAway(uid) ==
    LET n == PyInt(uid)
        uid_num == IF n.ok THEN n.val ELSE 0
    IN  IF uid_num < 82 THEN "vs" ELSE "@"

_build_summary(uid, team, going, tix) ==
    LET prefix0 == IF going THEN <<"PP">> ELSE <<"TV">>
        t == Strip(tix)
        prefix == IF t # <<>> THEN prefix0 \o <<" ", "(">> \o t \o <<")">>
                  ELSE prefix0
    IN  Strip(prefix \o <<":", " ", HomeAway(uid), " ">> \o team)

-----------------------------------------------------------------------------
(* Header resolution and cell access.  Python indexes from 0, the model    *)
(* from 1.                                                                  *)

ID_KEY == <<"i", "d">>
DATE_KEY == <<"d", "a", "t", "e">>
TIME_KEY == <<"t", "i", "m", "e">>
TEAM_KEY == <<"t", "e", "a", "m">>
GOING_KEY == <<"g", "o", "i", "n", "g">>
GIVEAWAY_KEY == <<"g", "i", "v", "e", "a", "w", "a", "y">>
TIX_KEY == <<"t", "i", "x">>
ID_LABEL == <<"I", "D">>
DATE_LABEL == <<"D", "a", "t", "e">>
TIME_LABEL == <<"T", "i", "m", "e">>
TEAM_LABEL == <<"t", "e", "a", "m">>
GOING_LABEL == <<"G", "o", "i", "n", "g", "?">>
GIVEAWAY_LABEL == <<"G", "i", "v", "e", "a", "w", "a", "y">>
TIX_LABEL == <<"#", "T", "i", "x">>

\* dict order: key, then the label used in the error message
REQUIRED_COLUMNS ==
    << <<ID_KEY, ID_LABEL>>,
       <<DATE_KEY, DATE_LABEL>>,
       <<TIME_KEY, TIME_LABEL>>,
       <<TEAM_KEY, TEAM_LABEL>>,
       <<GOING_KEY, GOING_LABEL>> >>

OPTIONAL_COLUMNS ==
    << <<GIVEAWAY_KEY, GIVEAWAY_LABEL>>,
       <<TIX_KEY, TIX_LABEL>> >>

SelectSeqAlnum(s) == SelectSeq(s, IsLowerAlnum)

_normalize_header(value) == SelectSeqAlnum(Lower(Strip(value)))

\* a dict as a function on its keys; a later column replaces an earlier one
_build_header_map(header_row) ==
    LET keys == {_normalize_header(header_row[i]) : i \in 1..Len(header_row)}
                \ {<<>>}
    IN  [k \in keys |->
            CHOOSE i \in 1..Len(header_row) :
                /\ _normalize_header(header_row[i]) = k
                /\ \A j \in 1..Len(header_row) :
                       _normalize_header(header_row[j]) = k => j <= i]

_get_cell(row, idx) == IF idx > Len(row) THEN <<>> ELSE row[idx]

\* a variant that keeps surrounding whitespace of the cell
CellRaw(row, hm, key) == _get_cell(row, hm[key])

\* _get_cell(row, header_map[key]).strip()
Cell(row, hm, key) == Strip(_get_cell(row, hm[key]))

RECURSIVE FirstCandidate(_, _, _)
FirstCandidate(row, hm, candidates) ==
    IF candidates = <<>> THEN <<>>
    ELSE LET k == _normalize_header(Head(candidates))
         IN  IF k \in DOMAIN hm THEN Strip(_get_cell(row, hm[k]))
             ELSE FirstCandidate(row, hm, Tail(candidates))

_get_optional_cell(row, hm, key) ==
    LET labels == {i \in 1..Len(OPTIONAL_COLUMNS) : OPTIONAL_COLUMNS[i][1] = key}
        candidates == <<key>> \o
            (IF labels = {} THEN <<>>
             ELSE <<OPTIONAL_COLUMNS[CHOOSE i \in labels : TRUE][2]>>)
    IN  FirstCandidate(row, hm, candidates)

-----------------------------------------------------------------------------
(* Exceptions *)

RuntimeError(msg) == [type |-> "RuntimeError", msg |-> msg]
ValueError(msg) == [type |-> "ValueError", msg |-> msg]

MissingColumnError(label) ==
    RuntimeError(<<"Missing required column '">> \o label
                 \o <<"' in sheet header">>)

MissingFieldsError(uid) ==
    RuntimeError(<<"Row for UID ">> \o uid \o <<" missing required fields">>)

\* the ValueError of strptime
StrptimeError(date_str, time_str) ==
    LET combined == Strip(date_str) \o <<" ", "2", "0", "2", "6", " ">>
                    \o Strip(time_str)
    IN  IF Strptime(combined).why = "day"
        THEN ValueError(<<"day is out of range for month">>)
        ELSE ValueError(<<"time data '">> \o combined
                        \o <<"' does not match format '%m-%d %Y %I:%M %p'">>)

-----------------------------------------------------------------------------
(* _iter_events *)

\* the first required key that the header lacks, as an index, or 0
RECURSIVE FirstMissing(_, _)
FirstMissing(hm, i) ==
    IF i > Len(REQUIRED_COLUMNS) THEN 0
    ELSE IF REQUIRED_COLUMNS[i][1] \notin DOMAIN hm THEN i
    ELSE FirstMissing(hm, i + 1)

\* a variant that yields an event for a row without identifier
RowStepNoSkip(row, hm, zoneinfo) ==
    LET uid == Cell(row, hm, ID_KEY)
        date_str == Cell(row, hm, DATE_KEY)
        time_str == Cell(row, hm, TIME_KEY)
        team == Cell(row, hm, TEAM_KEY)
        going_raw == Cell(row, hm, GOING_KEY)
        giveaway == _get_optional_cell(row, hm, GIVEAWAY_KEY)
        tix == _get_optional_cell(row, hm, TIX_KEY)
        start_utc == _parse_datetime(date_str, time_str, zoneinfo)
    IN  IF date_str = <<>> \/ time_str = <<>> \/ team = <<>>
        THEN [kind |-> "raise", error |-> MissingFieldsError(uid)]
        ELSE IF ~start_utc.ok
        THEN [kind |-> "raise", error |-> StrptimeError(date_str, time_str)]
        ELSE [kind |-> "yield",
              event |-> GameEvent(uid, start_utc.val,
                            start_utc.val + DURATION_HOURS * 60,
                            _build_summary(uid, team, _parse_going(going_raw),
                                           tix),
                            IF giveaway # <<>>
                            THEN Some(<<"Giveaway: ">> \o giveaway)
                            ELSE None)]

\* a variant that skips a row with a missing field instead of raising
RowStepSkipInvalid(row, hm, zoneinfo) ==
    LET r == RowStepNoSkip(row, hm, zoneinfo)
    IN  IF Cell(row, hm, ID_KEY) = <<>> THEN [kind |-> "continue"]
        ELSE IF r.kind = "raise" /\ r.error.type = "RuntimeError"
        THEN [kind |-> "continue"]
        ELSE r

\* a variant that keeps the identifier cell untrimmed
RowStepRawUid(row, hm, zoneinfo) ==
    LET uid == CellRaw(row, hm, ID_KEY)
        r == RowStepNoSkip(row, hm, zoneinfo)
    IN  IF Strip(uid) = <<>> THEN [kind |-> "continue"]
        ELSE IF r.kind = "yield"
        THEN [kind |-> "yield", event |-> [r.event EXCEPT !.uid = uid]]
        ELSE r

\* one iteration of the loop over values[1:]: continue, raise or yield
RowStep(row, hm, zoneinfo) ==
    LET uid == Cell(row, hm, ID_KEY)
        date_str == Cell(row, hm, DATE_KEY)
        time_str == Cell(row, hm, TIME_KEY)
        team == Cell(row, hm, TEAM_KEY)
        going_raw == Cell(row, hm, GOING_KEY)
        giveaway == _get_optional_cell(row, hm, GIVEAWAY_KEY)
        tix == _get_optional_cell(row, hm, TIX_KEY)
        start_utc == _parse_datetime(date_str, time_str, zoneinfo)
    IN  IF uid = <<>> THEN [kind |-> "continue"]
        ELSE IF date_str = <<>> \/ time_str = <<>> \/ team = <<>>
        THEN [kind |-> "raise", error |-> MissingFieldsError(uid)]
        ELSE IF ~start_utc.ok
        THEN [kind |-> "raise", error |-> StrptimeError(date_str, time_str)]
        ELSE [kind |-> "yield",
              event |-> GameEvent(uid, start_utc.val,
                            start_utc.val + DURATION_HOURS * 60,
                            _build_summary(uid, team, _parse_going(going_raw),
                                           tix),
                            IF giveaway # <<>>
                            THEN Some(<<"Giveaway: ">> \o giveaway)
                            ELSE None)]

-----------------------------------------------------------------------------
(* sorted(events, key=_sort_key) *)

\* a variant that gives identifiers that are no integers the largest key
SortKeyNonNumericLast(event) ==
    LET n == PyInt(event.uid)
    IN  IF n.ok THEN <<n.val, event.uid>> ELSE <<2147483647, event.uid>>

\* (int(uid), uid), or (0, uid) on ValueError
_sort_key(event) ==
    LET n == PyInt(event.uid)
    IN  IF n.ok THEN <<n.val, event.uid>> ELSE <<0, event.uid>>

\* tuple comparison
KeyLess(k1, k2) ==
    \/ k1[1] < k2[1]
    \/ k1[1] = k2[1] /\ StrLess(k1[2], k2[2])

\* a variant that puts an element before the elements it compares equal to
InsertUnstable(ord, i, evts) ==
    LET before == {p \in 1..Len(ord) :
                      \A q \in 1..p :
                          KeyLess(_sort_key(evts[ord[q]]), _sort_key(evts[i]))}
        n == Cardinality(before)
    IN  SubSeq(ord, 1, n) \o <<i>> \o SubSeq(ord, n + 1, Len(ord))

\* element i goes after every element that is not greater: the sort is stable
Insert(ord, i, evts) ==
    LET before == {p \in 1..Len(ord) :
                      \A q \in 1..p :
                          ~KeyLess(_sort_key(evts[i]), _sort_key(evts[ord[q]]))}
        n == Cardinality(before)
    IN  SubSeq(ord, 1, n) \o <<i>> \o SubSeq(ord, n + 1, Len(ord))

RECURSIVE SortOrder(_, _)
SortOrder(evts, n) ==
    IF n = 0 THEN <<>> ELSE Insert(SortOrder(evts, n - 1), n, evts)

\* sorted(): the events in the order of the stable sort
Sorted(evts, ord) == [i \in 1..Len(ord) |-> evts[ord[i]]]

-----------------------------------------------------------------------------
(* _render_ics *)

CalendarHead ==
    << <<"BEGIN:VCALENDAR">>, <<"VERSION:2.0">>,
       <<"PRODID:-//padres-2026-calendar//EN">>, <<"CALSCALE:GREGORIAN">>,
       <<"METHOD:PUBLISH">> >>

\* a variant that writes the DESCRIPTION line of every event
EventLinesAlwaysDescription(event) ==
    << <<"BEGIN:VEVENT">>,
       <<"UID:">> \o _ics_escape(event.uid),
       <<"DTSTAMP:">> \o _format_dt_utc(event.start_utc),
       <<"DTSTART:">> \o _format_dt_utc(event.start_utc),
       <<"DTEND:">> \o _format_dt_utc(event.end_utc),
       <<"SUMMARY:">> \o _ics_escape(event.summary),
       <<"DESCRIPTION:">> \o (IF event.description # None
                              THEN _ics_escape(event.description[1])
                              ELSE <<>>),
       <<"END:VEVENT">> >>

\* the lines of one event, lines 202-214
EventLines(event) ==
    << <<"BEGIN:VEVENT">>,
       <<"UID:">> \o _ics_escape(event.uid),
       <<"DTSTAMP:">> \o _format_dt_utc(event.start_utc),
       <<"DTSTART:">> \o _format_dt_utc(event.start_utc),
       <<"DTEND:">> \o _format_dt_utc(event.end_utc),
       <<"SUMMARY:">> \o _ics_escape(event.summary) >>
    \o (IF event.description # None /\ event.description[1] # <<>>
        THEN << <<"DESCRIPTION:">> \o _ics_escape(event.description[1]) >>
        ELSE <<>>)
    \o << <<"END:VEVENT">> >>

RECURSIVE AllEventLines(_)
AllEventLines(evts) ==
    IF evts = <<>> THEN <<>>
    ELSE EventLines(Head(evts)) \o AllEventLines(Tail(evts))

CRLF == <<"\r", "\n">>

\* "\r\n".join(lines)
RECURSIVE Join(_)
Join(lines) ==
    IF lines = <<>> THEN <<>>
    ELSE IF Len(lines) = 1 THEN lines[1]
    ELSE lines[1] \o CRLF \o Join(Tail(lines))

RenderLines(evts) ==
    CalendarHead \o AllEventLines(evts) \o << <<"END:VCALENDAR">> >>

_render_ics(evts) == Join(RenderLines(evts)) \o CRLF

-----------------------------------------------------------------------------
(* _load_existing, _write_if_changed *)

\* reading in text mode with newline=None: "\r\n" and "\r" become "\n"
RECURSIVE UniversalNewlines(_)
UniversalNewlines(data) ==
    IF data = <<>> THEN <<>>
    ELSE IF Head(data) = "\r"
         THEN <<"\n">> \o
              UniversalNewlines(IF Len(data) > 1 /\ data[2] = "\n"
                                THEN Tail(Tail(data)) ELSE Tail(data))
    ELSE <<Head(data)>> \o UniversalNewlines(Tail(data))

_load_existing(f) == IF ~f.exists THEN <<>> ELSE UniversalNewlines(f.data)

\* [changed, file]: the returned value and the file afterwards; the file is
\* written with newline="", that is, as given
_write_if_changed(f, content) ==
    IF _load_existing(f) = content THEN [changed |-> FALSE, file |-> f]
    ELSE [changed |-> TRUE, file |-> [exists |-> TRUE, data |-> content]]

-----------------------------------------------------------------------------
(* The inputs of a run *)

StandardHeader ==
    << <<"I", "D">>, <<"D", "a", "t", "e">>, <<"T", "i", "m", "e">>, <<"t", "e", "a", "m">>, <<"G", "o", "i", "n", "g", "?">>, <<"G", "i", "v", "e", "a", "w", "a", "y">>, <<"#", "T", "i", "x">> >>

\* rows under the standard header
RowPool ==
    { << <<"1">>, <<"0", "3", "-", "1", "4">>, <<"0", "7", ":", "1", "0", " ", "P", "M">>, <<"L", "A">>, <<"y", "e", "s">>, <<"H", "a", "t">>, <<"2">> >>,
      << <<" ", "1">>, <<"3", "-", "8">>, <<"2", ":", "3", "0", " ", "A", "M">>, <<"a", "\r", "b">>, <<"Y">> >>,
      << <<"a", "b", "c">>, <<"0", "1", "-", "0", "5">>, <<"1", "2", ":", "0", "5", " ", "a", "m">>, <<"A", ";", "B">>, <<"t", "r", "u", "e">>, <<"x", ",", "\\", "y", "\n", "z">>, <<" ">> >>,
      << <<"8", "2">>, <<"1", "1", "-", "0", "1">>, <<"0", "1", ":", "3", "0", " ", "A", "M">>, <<"N", "Y">>, <<>>, <<"\r">>, <<"4">> >>,
      << <<" ">>, <<>>, <<"0", "7", ":", "1", "0", " ", "P", "M">>, <<"L", "A">>, <<"y", "e", "s">>, <<"H", "a", "t">> >>,
      << <<"7">>, <<>>, <<"0", "7", ":", "1", "0", " ", "P", "M">>, <<"L", "A">> >>,
      <<>> }

\* the tabs with the standard header and at most MaxRows rows of RowPool
RECURSIVE RowSeqs(_)
RowSeqs(n) ==
    IF n = 0 THEN {<<>>}
    ELSE RowSeqs(n - 1) \cup
         {Append(rs, r) : rs \in {x \in RowSeqs(n - 1) : Len(x) = n - 1},
                          r \in RowPool}

PoolSheets == {<<StandardHeader>> \o rs : rs \in RowSeqs(MaxRows)}

\* the identifiers 10, 2, abc, 1
ExampleSheet ==
    << StandardHeader,
       << <<"1", "0">>, <<"0", "7", "-", "0", "4">>, <<"0", "1", ":", "0", "5", " ", "P", "M">>, <<"a">>, <<"n", "o">> >>,
       << <<"2">>, <<"0", "7", "-", "0", "4">>, <<"0", "1", ":", "0", "5", " ", "P", "M">>, <<"b">>, <<"n", "o">> >>,
       << <<"a", "b", "c">>, <<"0", "7", "-", "0", "4">>, <<"0", "1", ":", "0", "5", " ", "P", "M">>, <<"c">>, <<"n", "o">> >>,
       << <<"1">>, <<"0", "7", "-", "0", "4">>, <<"0", "1", ":", "0", "5", " ", "P", "M">>, <<"d">>, <<"n", "o">> >> >>

\* keys equal to 0, and a negative one
ZeroKeySheet ==
    << StandardHeader,
       << <<"a", "b", "c">>, <<"0", "7", "-", "0", "4">>, <<"0", "1", ":", "0", "5", " ", "P", "M">>, <<"L", "A">>, <<"n", "o">> >>,
       << <<"0">>, <<"0", "7", "-", "0", "4">>, <<"0", "1", ":", "0", "5", " ", "P", "M">>, <<"L", "A">>, <<"n", "o">> >>,
       << <<"-", "5">>, <<"0", "7", "-", "0", "4">>, <<"0", "1", ":", "0", "5", " ", "P", "M">>, <<"L", "A">>, <<"n", "o">> >>,
       << <<"0", "0">>, <<"0", "7", "-", "0", "4">>, <<"0", "1", ":", "0", "5", " ", "P", "M">>, <<"L", "A">>, <<"n", "o">> >> >>

\* identifiers around the threshold 82
ThresholdSheet ==
    << StandardHeader,
       << <<"8", "1">>, <<"0", "7", "-", "0", "4">>, <<"0", "1", ":", "0", "5", " ", "P", "M">>, <<"L", "A">>, <<"n", "o">> >>,
       << <<"1", "0", "0">>, <<"0", "7", "-", "0", "4">>, <<"0", "1", ":", "0", "5", " ", "P", "M">>, <<"L", "A">>, <<"n", "o">> >>,
       << <<"1", "\r", "2">>, <<"0", "7", "-", "0", "4">>, <<"0", "1", ":", "0", "5", " ", "P", "M">>, <<"L", "A">>, <<"n", "o">> >> >>

\* a date that does not parse, before a row without time
ParseErrorFirstSheet ==
    << StandardHeader,
       << <<"1">>, <<"0", "7", "-", "0", "4">>, <<"0", "1", ":", "0", "5", " ", "P", "M">>, <<"L", "A">>, <<"n", "o">> >>,
       << <<"7">>, <<"1", "3", "-", "0", "1">>, <<"0", "7", ":", "1", "0", " ", "P", "M">>, <<"L", "A">> >>,
       << <<"9">>, <<"0", "7", "-", "0", "4">>, <<>>, <<"L", "A">> >> >>

\* two rows with a missing field, then a valid row
TwoBadRowsSheet ==
    << StandardHeader,
       << <<"7">>, <<"0", "7", "-", "0", "4">>, <<"1", ":", "0", "5", " ", "P", "M">>, <<" ", "\t">> >>,
       << <<"9">>, <<>>, <<"1", ":", "0", "5", " ", "P", "M">>, <<"L", "A">> >>,
       << <<"1">>, <<"0", "7", "-", "0", "4">>, <<"0", "1", ":", "0", "5", " ", "P", "M">>, <<"L", "A">>, <<"n", "o">> >> >>

\* an event that ends in 2027, and February 30
RolloverSheet ==
    << StandardHeader,
       << <<"-", "5">>, <<"1", "2", "-", "3", "1">>, <<"0", "8", ":", "0", "0", " ", "P", "M">>, <<"S", "F">>, <<"n", "o">>, <<>>, <<>> >>,
       << <<"8">>, <<"0", "2", "-", "3", "0">>, <<"0", "7", ":", "1", "0", " ", "P", "M">>, <<"L", "A">> >> >>

\* a time without the space before PM
NoSpaceTimeSheet ==
    << StandardHeader,
       << <<"4">>, <<"0", "7", "-", "0", "4">>, <<"1", ":", "0", "5", "P", "M">>, <<"L", "A">> >> >>

\* another column order, two ID columns, no giveaway column
OtherHeaderSheet ==
    << << <<" ", "g", "o", "i", "n", "g", " ">>, <<"T", "I", "M", "E">>, <<"d", "a", "t", "e">>, <<"I", "d">>, <<"T", "e", "a", "m">>, <<>>, <<"t", "i", "x">>, <<"i", "d">> >>,
       << <<"c", "h", "e", "c", "k", "e", "d">>, <<"9", ":", "0", "0", " ", "p", "m">>, <<"6", "-", "1">>, <<"x">>, <<"S", "D">>, <<"n">>, <<"3">>, <<"5">> >>,
       << <<>>, <<>>, <<>>, <<>>, <<>>, <<>>, <<>>, <<" ">> >>,
       << <<"n", "o">>, <<>>, <<>>, <<"4">>, <<"S", "D">> >>,
       << <<"y", "e", "s">>, <<"1", "0", ":", "0", "0", " ", "a", "m">>, <<"6", "-", "2">>, <<"x">>, <<"L", "A">>, <<>>, <<>>, <<"3">> >> >>

\* a header without the team column
NoTeamSheet ==
    << << <<"I", "D">>, <<"D", "a", "t", "e">>, <<"T", "i", "m", "e">>, <<"G", "o", "i", "n", "g", "?">> >>,
       << <<"1">>, <<"0", "3", "-", "1", "4">>, <<"0", "7", ":", "1", "0", " ", "P", "M">>, <<"y", "e", "s">> >> >>

\* an empty header row
EmptyHeaderSheet ==
    << <<>>,
       << <<"1">>, <<"0", "3", "-", "1", "4">>, <<"0", "7", ":", "1", "0", " ", "P", "M">>, <<"L", "A">> >> >>

\* tabs chosen for particular cases; the last one has no rows at all
ExtraSheets ==
    { ExampleSheet,
      ZeroKeySheet,
      ThresholdSheet,
      ParseErrorFirstSheet,
      TwoBadRowsSheet,
      RolloverSheet,
      NoSpaceTimeSheet,
      OtherHeaderSheet,
      NoTeamSheet,
      EmptyHeaderSheet,
      <<>> }

EmptyCalendar == [exists |-> TRUE, data |-> _render_ics(<<>>)]

NoFile == [exists |-> FALSE, data |-> <<>>]

InitialFiles == {NoFile, EmptyCalendar}

Scenarios ==
    [sheet : PoolSheets, creds : {TRUE}, tzdata : {TRUE}, file : InitialFiles]
    \cup [sheet : {sh \in PoolSheets : Len(sh) <= 2}, creds : {TRUE},
          tzdata : {FALSE}, file : InitialFiles]
    \cup [sheet : ExtraSheets, creds : BOOLEAN, tzdata : BOOLEAN,
          file : InitialFiles]

EscAlphabet == {"a", "n", "\\", ";", ",", "\n"}

RECURSIVE Strings(_)
Strings(n) ==
    IF n = 0 THEN {<<>>}
    ELSE Strings(n - 1) \cup
         {Append(x, c) : x \in {y \in Strings(n - 1) : Len(y) = n - 1},
                         c \in EscAlphabet}

-----------------------------------------------------------------------------
(* The run: main() *)

RunStart(f) ==
    /\ pc = "fetch"
    /\ file = f
    /\ fileAtStart = f
    /\ values = <<>>
    /\ header_map = <<>>
    /\ rowIdx = 0
    /\ events = <<>>
    /\ order = <<>>
    /\ ics_content = <<>>
    /\ changed = None
    /\ writes = 0
    /\ err = None

Init ==
    /\ \E sc \in Scenarios :
          /\ sheet = sc.sheet
          /\ creds = sc.creds
          /\ tzdata = sc.tzdata
          /\ RunStart(sc.file)
    /\ escIn = <<>>
    /\ escOut = None

Env == <<sheet, creds, tzdata, escIn, escOut, fileAtStart>>

Raise(e) ==
    /\ pc' = "failed"
    /\ err' = Some(e)

\* _fetch_sheet_values
FetchSheetValues ==
    /\ pc = "fetch"
    /\ IF ~creds
       THEN /\ Raise(RuntimeError(
                   <<"Missing env var: SHEETS_SERVICE_ACCOUNT_JSON">>))
            /\ UNCHANGED values
       ELSE IF sheet = <<>>
       THEN /\ Raise(RuntimeError(<<"No data found in sheet">>))
            /\ UNCHANGED values
       ELSE /\ values' = sheet
            /\ pc' = "header"
            /\ UNCHANGED err
    /\ UNCHANGED <<Env, file, header_map, rowIdx, events, order, ics_content,
                   changed, writes>>

\* _iter_events up to the loop: the header map and the required columns
ResolveHeader ==
    /\ pc = "header"
    /\ header_map' = _build_header_map(values[1])
    /\ LET m == FirstMissing(header_map', 1)
       IN  IF m # 0
           THEN /\ Raise(MissingColumnError(REQUIRED_COLUMNS[m][2]))
                /\ UNCHANGED rowIdx
           ELSE /\ pc' = "rows"
                /\ rowIdx' = 2
                /\ UNCHANGED err
    /\ UNCHANGED <<Env, file, values, events, order, ics_content, changed,
                   writes>>

\* one iteration of the loop of _iter_events, driven by sorted()
IterRow ==
    /\ pc = "rows"
    /\ rowIdx <= Len(values)
    /\ LET r == RowStep(values[rowIdx], header_map, tzdata)
       IN  CASE r.kind = "continue" ->
                    /\ rowIdx' = rowIdx + 1
                    /\ UNCHANGED <<pc, err, events>>
             [] r.kind = "raise" ->
                    /\ Raise(r.error)
                    /\ UNCHANGED <<rowIdx, events>>
             [] r.kind = "yield" ->
                    /\ events' = Append(events, r.event)
                    /\ rowIdx' = rowIdx + 1
                    /\ UNCHANGED <<pc, err>>
    /\ UNCHANGED <<Env, file, values, header_map, order, ics_content,
                   changed, writes>>

\* sorted(): the generator is exhausted, the list is sorted
Sort ==
    /\ pc = "rows"
    /\ rowIdx > Len(values)
    /\ order' = SortOrder(events, Len(events))
    /\ pc' = "render"
    /\ UNCHANGED <<Env, file, values, header_map, rowIdx, events,
                   ics_content, changed, writes, err>>

Render ==
    /\ pc = "render"
    /\ ics_content' = _render_ics(Sorted(events, order))
    /\ pc' = "write"
    /\ UNCHANGED <<Env, file, values, header_map, rowIdx, events, order,
                   changed, writes, err>>

Write ==
    /\ pc = "write"
    /\ LET w == _write_if_changed(file, ics_content)
       IN  /\ file' = w.file
           /\ changed' = Some(w.changed)
           /\ writes' = IF w.changed THEN writes + 1 ELSE writes
    /\ pc' = "done"
    /\ UNCHANGED <<Env, values, header_map, rowIdx, events, order,
                   ics_content, err>>

\* the program is started again on the same tab; the file is what the
\* earlier run left
Rerun ==
    /\ pc \in {"done", "failed"}
    /\ pc' = "fetch"
    /\ fileAtStart' = file
    /\ values' = <<>>
    /\ header_map' = <<>>
    /\ rowIdx' = 0
    /\ events' = <<>>
    /\ order' = <<>>
    /\ ics_content' = <<>>
    /\ changed' = None
    /\ writes' = 0
    /\ err' = None
    /\ UNCHANGED <<sheet, creds, tzdata, escIn, escOut, file>>

Next ==
    \/ FetchSheetValues
    \/ ResolveHeader
    \/ IterRow
    \/ Sort
    \/ Render
    \/ Write
    \/ Rerun

Spec == Init /\ [][Next]_vars

-----------------------------------------------------------------------------
(* Direct calls of _ics_escape *)

\* the text A;B,C<newline>D
EscExample == <<"A", ";", "B", ",", "C", "\n", "D">>

EscInit ==
    /\ sheet = <<>>
    /\ creds = FALSE
    /\ tzdata = FALSE
    /\ RunStart(NoFile)
    /\ escIn \in Strings(MaxLen) \cup {EscExample}
    /\ escOut = None

Escape ==
    /\ escOut = None
    /\ escOut' = Some(_ics_escape(escIn))
    /\ UNCHANGED <<sheet, creds, tzdata, file, pc, values, header_map, rowIdx,
                   events, order, ics_content, changed, writes, err,
                   fileAtStart, escIn>>

EscNext == Escape

EscSpec == EscInit /\ [][EscNext]_vars

-----------------------------------------------------------------------------
(* Helpers of the properties *)

Range(s) == {s[i] : i \in 1..Len(s)}

\* needle occurs in hay as a contiguous part
Contains(hay, needle) ==
    \E p \in 1..(Len(hay) - Len(needle) + 1) :
        SubSeq(hay, p, p + Len(needle) - 1) = needle

Finished == pc \in {"done", "failed"}

\* the run got past the header: values and header_map are those of the tab
HeaderResolved ==
    /\ pc \in {"rows", "render", "write", "done", "failed"}
    /\ values # <<>>
    /\ FirstMissing(header_map, 1) = 0

RowUid(i) == Strip(_get_cell(values[i], header_map[ID_KEY]))

\* row i has an identifier and lacks the date, the time or the team
MissingField(i) ==
    /\ RowUid(i) # <<>>
    /\ \E k \in {DATE_KEY, TIME_KEY, TEAM_KEY} :
           Strip(_get_cell(values[i], header_map[k])) = <<>>

\* row i has an identifier and all fields, and its date or time is rejected
Unparseable(i) ==
    /\ RowUid(i) # <<>>
    /\ ~MissingField(i)
    /\ ~_parse_datetime(_get_cell(values[i], header_map[DATE_KEY]),
                        _get_cell(values[i], header_map[TIME_KEY]),
                        tzdata).ok

DataRows == 2..Len(values)

\* the indices below n of the data rows that have an identifier, ascending
RECURSIVE IdRows(_)
IdRows(n) ==
    IF n <= 2 THEN <<>>
    ELSE IF RowUid(n - 1) # <<>> THEN Append(IdRows(n - 1), n - 1)
    ELSE IdRows(n - 1)

IsCut(text, i) == i < Len(text) /\ text[i] = "\r" /\ text[i + 1] = "\n"

\* the text from position from on, cut at every CRLF; the text after the
\* last CRLF comes last
RECURSIVE SplitFrom(_, _)
SplitFrom(text, from) ==
    IF \A i \in from..Len(text) : ~IsCut(text, i)
    THEN <<SubSeq(text, from, Len(text))>>
    ELSE LET c == CHOOSE i \in from..Len(text) :
                      /\ IsCut(text, i)
                      /\ \A j \in from..(i - 1) : ~IsCut(text, j)
         IN  <<SubSeq(text, from, c - 1)>> \o SplitFrom(text, c + 2)

SplitCRLF(text) == SplitFrom(text, 1)

Rendered == pc \in {"write", "done"}

-----------------------------------------------------------------------------
(* C1: writer idempotence *)

\* C1: when _write_if_changed is called with the content the file already
\* holds (the earlier call wrote exactly this content), it writes nothing and
\* reports unchanged.
C1_SecondWriteUnchanged ==
    (pc = "done" /\ fileAtStart.exists /\ fileAtStart.data = ics_content)
        => (changed = Some(FALSE) /\ writes = 0 /\ file = fileAtStart)

-----------------------------------------------------------------------------
(* C8: escaping, a property of EscSpec *)

EscapedChar(c) ==
    CASE c = "\\" -> <<"\\", "\\">>
      [] c = ";" -> <<"\\", ";">>
      [] c = "," -> <<"\\", ",">>
      [] c = "\n" -> <<"\\", "n">>
      [] OTHER -> <<c>>

RECURSIVE CharWise(_)
CharWise(s) ==
    IF s = <<>> THEN <<>>
    ELSE CharWise(SubSeq(s, 1, Len(s) - 1)) \o EscapedChar(s[Len(s)])

\* C8: the result of _ics_escape is the concatenation, character by
\* character, of the escaped form of each character of the argument, so a
\* backslash put in front of ; , or n is not escaped again; the text
\* A;B,C<newline>D becomes A\;B\,C\nD.
C8_EscapeIsCharWise ==
    escOut # None =>
        /\ escOut[1] = CharWise(escIn)
        /\ escIn = EscExample =>
               escOut[1] = <<"A", "\\", ";", "B", "\\", ",", "C", "\\", "n",
                             "D">>

C8_Witness ==
    /\ escOut # None
    /\ escIn = <<";", "\\", "\n">>
    /\ escOut[1] = <<"\\", ";", "\\", "\\", "\\", "n">>

-----------------------------------------------------------------------------
(* C10: line integrity *)

\* C10: in the rendered calendar every carriage return is followed by a
\* line feed and every line feed follows a carriage return, so each of them
\* belongs to a CRLF line terminator, and there are as many terminators as
\* lines the serializer emitted.
C10_OnlyTerminatorsBreakLines ==
    Rendered =>
        /\ \A i \in 1..Len(ics_content) :
               /\ ics_content[i] = "\r" =>
                      (i < Len(ics_content) /\ ics_content[i + 1] = "\n")
               /\ ics_content[i] = "\n" => (i > 1 /\ ics_content[i - 1] = "\r")
        /\ Cardinality({i \in 1..Len(ics_content) : ics_content[i] = "\n"})
               = Len(RenderLines(Sorted(events, order)))

-----------------------------------------------------------------------------
(* C2: a row with a missing field fails the whole run *)

\* the first data row that _iter_events cannot turn into an event, or 0
FirstFailingRow ==
    LET failing == {i \in DataRows : MissingField(i) \/ Unparseable(i)}
    IN  IF failing = {} THEN 0
        ELSE CHOOSE i \in failing : \A j \in failing : i <= j

\* C2 as stated: whenever some data row has an identifier and lacks the
\* date, the time or the team, the run fails with an error whose message
\* includes the identifier of that row, and the file is as before the run.
C2_EveryBadRowIsNamed ==
    (Finished /\ HeaderResolved) =>
        \A i \in DataRows :
            MissingField(i) =>
                /\ pc = "failed"
                /\ err # None
                /\ Contains(err[1].msg, RowUid(i))
                /\ file = fileAtStart

\* C2 as amended: whenever some data row has an identifier and lacks the
\* date, the time or the team, the run fails, nothing is written and the
\* file is as before the run, wherever the row sits; the error is that of
\* the first data row that fails: its message includes the identifier of
\* that row when the row lacks a field, and it is the ValueError of the date
\* parser when the row has all fields and a date or time that does not parse.
C2_BadRowFailsRun ==
    (Finished /\ HeaderResolved /\ \E i \in DataRows : MissingField(i)) =>
        /\ pc = "failed"
        /\ err # None
        /\ file = fileAtStart
        /\ writes = 0
        /\ changed = None
        /\ ics_content = <<>>
        /\ MissingField(FirstFailingRow) =>
               /\ err[1].type = "RuntimeError"
               /\ Contains(err[1].msg, RowUid(FirstFailingRow))
        /\ Unparseable(FirstFailingRow) => err[1].type = "ValueError"

\* a failed run on a tab whose bad row has valid rows before and after it,
\* with a calendar on disk
C2_Witness ==
    /\ pc = "failed"
    /\ HeaderResolved
    /\ fileAtStart.exists
    /\ \E i \in DataRows :
           /\ MissingField(i)
           /\ err # None
           /\ Contains(err[1].msg, RowUid(i))
           /\ \E a \in DataRows : a < i /\ RowUid(a) # <<>> /\ a # FirstFailingRow
           /\ \E b \in DataRows :
                  /\ b > i
                  /\ RowUid(b) # <<>>
                  /\ ~MissingField(b)
                  /\ ~Unparseable(b)

-----------------------------------------------------------------------------
(* C3, C6: the order of the events *)

SortDone == pc \in {"render", "write", "done"}

SortedEvents == Sorted(events, order)

Uids(evts) == [i \in 1..Len(evts) |-> evts[i].uid]

IsNum(e) == PyInt(e.uid).ok

Num(e) == PyInt(e.uid).val

\* C3 as stated: events with an integer identifier are in ascending numeric
\* order, events whose identifier is no integer come after them, and the
\* identifiers 10, 2, abc, 1 are sorted as 1, 2, 10, abc.
C3_NonNumericLast ==
    SortDone =>
        /\ \A i, j \in 1..Len(SortedEvents) :
               i < j =>
                   /\ (IsNum(SortedEvents[i]) /\ IsNum(SortedEvents[j]))
                          => Num(SortedEvents[i]) <= Num(SortedEvents[j])
                   /\ ~(~IsNum(SortedEvents[i]) /\ IsNum(SortedEvents[j]))
        /\ values = ExampleSheet =>
               Uids(SortedEvents)
                   = << <<"1">>, <<"2">>, <<"1", "0">>, <<"a", "b", "c">> >>

\* C3 as amended: events with an integer identifier are in ascending numeric
\* order, and an event whose identifier is no integer is placed as if its
\* number were 0: after every event with a negative number and before every
\* event with a positive number; the identifiers 10, 2, abc, 1 are sorted as
\* abc, 1, 2, 10.
C3_NonNumericAtZero ==
    SortDone =>
        /\ \A i, j \in 1..Len(SortedEvents) :
               i < j =>
                   /\ (IsNum(SortedEvents[i]) /\ IsNum(SortedEvents[j]))
                          => Num(SortedEvents[i]) <= Num(SortedEvents[j])
                   /\ (~IsNum(SortedEvents[i]) /\ IsNum(SortedEvents[j]))
                          => Num(SortedEvents[j]) >= 0
                   /\ (IsNum(SortedEvents[i]) /\ ~IsNum(SortedEvents[j]))
                          => Num(SortedEvents[i]) <= 0
        /\ values = ExampleSheet =>
               Uids(SortedEvents)
                   = << <<"a", "b", "c">>, <<"1">>, <<"2">>, <<"1", "0">> >>

C3_Witness ==
    /\ pc = "done"
    /\ values = ExampleSheet
    /\ Uids(events) = << <<"1", "0">>, <<"2">>, <<"a", "b", "c">>, <<"1">> >>
    /\ Uids(SortedEvents)
           = << <<"a", "b", "c">>, <<"1">>, <<"2">>, <<"1", "0">> >>

\* the key of the claim: the number of the identifier, 0 when it has none,
\* then the identifier
ClaimKey(e) == <<IF IsNum(e) THEN Num(e) ELSE 0, e.uid>>

\* C6: the sorted sequence is a permutation of the events yielded (order
\* maps each position to a different event and all events are taken), it is
\* non-decreasing under (integer key, identifier), and two events with the
\* same identifier keep their row order.
C6_StableSortedPermutation ==
    SortDone =>
        /\ Len(order) = Len(events)
        /\ Range(order) = 1..Len(events)
        /\ \A i, j \in 1..Len(order) :
               i < j =>
                   /\ ~KeyLess(ClaimKey(events[order[j]]),
                               ClaimKey(events[order[i]]))
                   /\ events[order[i]].uid = events[order[j]].uid
                          => order[i] < order[j]

\* two different events with one identifier were sorted behind a later row
C6_Witness ==
    /\ pc = "done"
    /\ \E i, j \in 1..Len(order) :
           /\ i < j
           /\ events[order[i]].uid = events[order[j]].uid
           /\ events[order[i]] # events[order[j]]
    /\ Len(events) >= 3
    /\ order[1] = Len(events)

-----------------------------------------------------------------------------
(* C4: the marker of the summary *)

Marker(summary) ==
    IF "vs" \in Range(summary) /\ "@" \notin Range(summary) THEN "vs"
    ELSE IF "@" \in Range(summary) /\ "vs" \notin Range(summary) THEN "@"
    ELSE "none"

\* C4 as stated: the marker of an event is "vs" exactly when its identifier
\* is an integer below 82, and "@" in every other case.
C4_VsIffIntegerBelow82 ==
    \A k \in 1..Len(events) :
        Marker(events[k].summary)
            = IF IsNum(events[k]) /\ Num(events[k]) < 82 THEN "vs" ELSE "@"

\* C4 as amended: the marker of an event is "@" exactly when its identifier
\* is an integer that is 82 or more, and "vs" in every other case: an
\* integer below 82, or an identifier that is no integer.
C4_AtIffIntegerFrom82 ==
    \A k \in 1..Len(events) :
        Marker(events[k].summary)
            = IF IsNum(events[k]) /\ Num(events[k]) >= 82 THEN "@" ELSE "vs"

C4_Witness ==
    /\ pc = "done"
    /\ \E k \in 1..Len(events) :
           ~IsNum(events[k]) /\ Marker(events[k].summary) = "vs"
    /\ \E k \in 1..Len(events) :
           Num(events[k]) = 81 /\ Marker(events[k].summary) = "vs"
    /\ \E k \in 1..Len(events) :
           Num(events[k]) >= 82 /\ Marker(events[k].summary) = "@"

-----------------------------------------------------------------------------
(* C5: the identifiers of the events *)

IsUidLine(line) == line # <<>> /\ line[1] = "UID:"

UidLines == SelectSeq(SplitCRLF(ics_content), IsUidLine)

\* C5 as stated: no two events have the same uid, and no two UID lines of
\* the rendered calendar are equal.
C5_UidsUnique ==
    /\ \A i, j \in 1..Len(events) : i # j => events[i].uid # events[j].uid
    /\ Rendered =>
           LET uids == UidLines
           IN  \A i, j \in 1..Len(uids) : i # j => uids[i] # uids[j]

\* C5 as amended: the uid of an event is the trimmed identifier cell of its
\* row, and the calendar has one UID line per event, holding the escaped
\* uid; duplicates are neither rejected nor merged, so two events (two UID
\* lines) are equal in uid exactly when their rows have the same trimmed
\* identifier, and the uids are unique when the trimmed identifiers are.
C5_UidsAreTrimmedIds ==
    HeaderResolved =>
        LET idx == IdRows(rowIdx)
            uids == IF Rendered THEN UidLines ELSE <<>>
        IN  /\ Len(events) = Len(idx)
            /\ \A k \in 1..Len(events) : events[k].uid = RowUid(idx[k])
            /\ Rendered =>
                   /\ Len(uids) = Len(events)
                   /\ \A k \in 1..Len(uids) :
                          uids[k] = <<"UID:">> \o CharWise(RowUid(idx[order[k]]))
                   /\ \A i, j \in 1..Len(uids) :
                          (uids[i] = uids[j])
                              <=> (RowUid(idx[order[i]]) = RowUid(idx[order[j]]))

\* a calendar with two events of one uid, from cells that differ before
\* trimming, and an event of another uid
C5_Witness ==
    /\ pc = "done"
    /\ LET uids == UidLines
       IN  /\ \E i, j \in 1..Len(uids) : i # j /\ uids[i] = uids[j]
           /\ \E i, j \in 1..Len(uids) : uids[i] # uids[j]
    /\ \E a, b \in DataRows :
           /\ _get_cell(values[a], header_map[ID_KEY])
                  # _get_cell(values[b], header_map[ID_KEY])
           /\ RowUid(a) = RowUid(b)
           /\ RowUid(a) # <<>>

-----------------------------------------------------------------------------
(* C7: rows without identifier *)

\* the event _iter_events makes of the row when the row is the only one
EventOfRow(i) == RowStep(values[i], header_map, tzdata).event

\* C7: a data row whose identifier cell is empty after trimming, or absent,
\* yields no event and raises no error, whatever its other cells: the events
\* are those of the rows with an identifier, each as if the other rows were
\* not there, an error is never raised at a row without identifier, and a
\* run that succeeds has as many events as rows with an identifier.
C7_EmptyIdRowsSkipped ==
    HeaderResolved =>
        LET idx == IdRows(rowIdx)
        IN  /\ Len(events) = Len(idx)
            /\ \A k \in 1..Len(events) : events[k] = EventOfRow(idx[k])
            /\ pc = "failed" => (rowIdx \in DataRows /\ RowUid(rowIdx) # <<>>)
            /\ pc = "done" =>
                   Len(events)
                       = Cardinality({i \in DataRows : RowUid(i) # <<>>})

\* a run that succeeded on a tab where, between rows that yield events, one
\* row has a blank identifier cell and another is too short to have one but
\* has a team and no date
C7_Witness ==
    /\ pc = "done"
    /\ Len(events) >= 2
    /\ \E i, j, a, b \in DataRows :
           /\ a < i /\ a < j /\ i < b /\ j < b
           /\ RowUid(a) # <<>>
           /\ RowUid(b) # <<>>
           /\ Len(values[i]) >= header_map[ID_KEY]
           /\ RowUid(i) = <<>>
           /\ Len(values[j]) < header_map[ID_KEY]
           /\ Strip(_get_cell(values[j], header_map[DATE_KEY])) = <<>>
           /\ Strip(_get_cell(values[j], header_map[TEAM_KEY])) # <<>>

-----------------------------------------------------------------------------
(* C9: the structure of the calendar *)

HasDescription(e) == e.description # None

\* the number of lines before the block of the k-th sorted event
RECURSIVE BlockStart(_)
BlockStart(k) ==
    IF k = 1 THEN 5
    ELSE BlockStart(k - 1) + 7
         + (IF HasDescription(SortedEvents[k - 1]) THEN 1 ELSE 0)

\* the giveaway cell of the row of the k-th sorted event, trimmed
GiveawayOf(k) ==
    _get_optional_cell(values[IdRows(rowIdx)[order[k]]], header_map,
                       GIVEAWAY_KEY)

\* C9: the rendered text is the five wrapper lines, one block per event in
\* the given order, and END:VCALENDAR; a block is BEGIN:VEVENT, UID,
\* DTSTAMP, DTSTART, DTEND, SUMMARY, a DESCRIPTION line exactly when the
\* giveaway cell of the row is not empty after trimming, and END:VEVENT;
\* DTSTAMP has the value of DTSTART; every line, the last one too, ends with
\* CRLF.
C9_CalendarStructure ==
    Rendered =>
        LET lines == SplitCRLF(ics_content)
            n == Len(SortedEvents)
            last == IF n = 0 THEN 5
                    ELSE BlockStart(n) + 7
                         + (IF HasDescription(SortedEvents[n]) THEN 1 ELSE 0)
        IN  /\ Len(lines) = last + 2
            /\ lines[Len(lines)] = <<>>
            /\ SubSeq(lines, 1, 5) = CalendarHead
            /\ lines[last + 1] = <<"END:VCALENDAR">>
            /\ \A k \in 1..n :
                   LET b == BlockStart(k)
                       e == SortedEvents[k]
                       d == IF HasDescription(e) THEN 1 ELSE 0
                   IN  /\ lines[b + 1] = <<"BEGIN:VEVENT">>
                       /\ lines[b + 2] = <<"UID:">> \o CharWise(e.uid)
                       /\ lines[b + 3][1] = "DTSTAMP:"
                       /\ lines[b + 4][1] = "DTSTART:"
                       /\ Tail(lines[b + 3]) = Tail(lines[b + 4])
                       /\ Len(lines[b + 4]) = 17
                       /\ lines[b + 5][1] = "DTEND:"
                       /\ Len(lines[b + 5]) = 17
                       /\ lines[b + 6] = <<"SUMMARY:">> \o CharWise(e.summary)
                       /\ HasDescription(e) <=> GiveawayOf(k) # <<>>
                       /\ HasDescription(e) =>
                              lines[b + 7] = <<"DESCRIPTION:", "Giveaway: ">>
                                             \o CharWise(GiveawayOf(k))
                       /\ lines[b + 7 + d] = <<"END:VEVENT">>

\* a calendar with an event that has a giveaway, one whose giveaway cell is
\* blank and one whose row has no giveaway cell
C9_Witness ==
    /\ pc = "done"
    /\ Len(events) = 3
    /\ \E k \in 1..3 : HasDescription(SortedEvents[k])
    /\ \E k \in 1..3 :
           /\ ~HasDescription(SortedEvents[k])
           /\ Len(values[IdRows(rowIdx)[order[k]]]) >= 6
           /\ values[IdRows(rowIdx)[order[k]]][6] # <<>>
    /\ \E k \in 1..3 : Len(values[IdRows(rowIdx)[order[k]]]) < 6

====
